---------------------------- MODULE Spec2Model ----------------------------
(***************************************************************************)
(* A model of the repository's two source files.                           *)
(*                                                                         *)
(*   src/cb.py             focal_loss and CB_loss (class-balanced loss)    *)
(*   src/save_features.py  parse_args, set_loader, set_model and main (the *)
(*                         feature export)                                 *)
(*                                                                         *)
(* Numbers.  cb.py computes the class weights in binary64 (numpy) and the  *)
(* loss in binary32 (torch).  Both are modelled at a reduced resolution:   *)
(* a binary64 value is an integer count of 1/DScale, a binary32 value an   *)
(* integer count of 1/Scale, every operation rounds its exact result to    *)
(* the nearest representable value, and a binary32 result beyond MaxFloat  *)
(* becomes an infinity; inf - inf and 0 * inf are NaN.                     *)
(***************************************************************************)
EXTENDS Integers, Sequences, FiniteSets, TLC

VARIABLES
    \* ---- cb.py: one call of CB_loss -----------------------------------
    labels,           \* int tensor [batch]: labels[i], i \in 1..batch
    logits,           \* float tensor [batch, no_of_classes]
    samples_per_cls,  \* python list [no_of_classes], indexed 0..C-1
    no_of_classes,
    loss_type,
    beta,             \* binary64, in units of 1/DScale
    gamma,            \* in units of 1/Scale
    args0,            \* the argument objects' values as the caller built them
    repeated,         \* whether the last call followed an earlier call
    ret,              \* what the last call of CB_loss produced
    \* ---- save_features.py: one run of main --------------------------
    pc,               \* where main stands
    err,              \* the exception that ended the run ("" for none)
    args,             \* the argparse namespace (the command line at first)
    disk,             \* which checkpoint files exist
    dirs,             \* the directories that exist
    fs,               \* the files the run can write: path -> content
    out,              \* the messages printed about checkpoints
    net,              \* where the model and optimizer state come from
    data,             \* the sizes of the train and validation datasets
    batches,          \* the batches of the loader being iterated
    idx               \* the number of batches of that loader already saved

lossVars == <<labels, logits, samples_per_cls, no_of_classes, loss_type, beta,
              gamma, args0, repeated, ret>>

mainVars == <<pc, err, args, disk, dirs, fs, out, net, data, batches, idx>>

vars == <<lossVars, mainVars>>

-----------------------------------------------------------------------------
(* Bounds of the model.                                                    *)

MaxBatch == 2        \* batch sizes 1..MaxBatch
MaxCount == 4        \* samples_per_cls entries 1..MaxCount
MaxSamples == 2      \* dataset sizes 1..MaxSamples

\* no_of_classes values of the calls that are modelled
ClassCounts == {2, 3}

-----------------------------------------------------------------------------
(* Integer helpers.                                                        *)

Abs(x) == IF x < 0 THEN -x ELSE x

Max2(a, b) == IF a >= b THEN a ELSE b

\* n / d rounded to the nearest integer (d > 0), halves away from zero
RoundDiv(n, d) ==
    IF n >= 0 THEN (2 * n + d) \div (2 * d)
    ELSE -((2 * (-n) + d) \div (2 * d))

RECURSIVE SumTo(_, _)
\* f[1] + ... + f[n] over integers
SumTo(f, n) == IF n = 0 THEN 0 ELSE SumTo(f, n - 1) + f[n]

RECURSIVE SumRange(_, _, _)
\* f[lo] + ... + f[hi] over integers (0 when hi < lo)
SumRange(f, lo, hi) == IF hi < lo THEN 0 ELSE SumRange(f, lo, hi - 1) + f[hi]

-----------------------------------------------------------------------------
(* binary64 at reduced resolution: numpy's arithmetic in CB_loss.          *)

DScale == 1000       \* a binary64 value v is the integer v * DScale

\* x / y in binary64 (y > 0)
DDiv(x, y) == RoundDiv(x * DScale, y)

RECURSIVE DPow(_, _)
\* np.power(b, n) for an integer n >= 0: b^n rounded to binary64
DPow(b, n) == IF n = 0 THEN DScale ELSE RoundDiv(DPow(b, n - 1) * b, DScale)

-----------------------------------------------------------------------------
(* binary32 at reduced resolution: torch's arithmetic.                     *)

Scale == 100             \* a binary32 value v is the integer v * Scale
MaxFloat == 10000000     \* the largest finite binary32 value, in units

PInf == MaxFloat + 1     \* +inf
NInf == -(MaxFloat + 1)  \* -inf
NaN  == MaxFloat + 2     \* not a number

IsFinite(a) == a >= -MaxFloat /\ a <= MaxFloat
IsInf(a) == a = PInf \/ a = NInf

\* the exact result x rounded into binary32's range
Sat(x) == IF x > MaxFloat THEN PInf ELSE IF x < -MaxFloat THEN NInf ELSE x

SignInf(neg) == IF neg THEN NInf ELSE PInf

FNeg(a) == IF a = NaN THEN NaN ELSE -a

FAdd(a, b) ==
    IF a = NaN \/ b = NaN THEN NaN
    ELSE IF a = PInf THEN (IF b = NInf THEN NaN ELSE PInf)
    ELSE IF a = NInf THEN (IF b = PInf THEN NaN ELSE NInf)
    ELSE IF IsInf(b) THEN b
    ELSE Sat(a + b)

FSub(a, b) == FAdd(a, FNeg(b))

FMul(a, b) ==
    IF a = NaN \/ b = NaN THEN NaN
    ELSE IF IsInf(a) \/ IsInf(b)
         THEN (IF a = 0 \/ b = 0 THEN NaN ELSE SignInf((a < 0) # (b < 0)))
    ELSE IF a = 0 \/ b = 0 THEN 0
    ELSE IF Abs(a) > (MaxFloat * Scale) \div Abs(b) THEN SignInf((a < 0) # (b < 0))
    ELSE Sat(RoundDiv(a * b, Scale))

FDiv(a, b) ==
    IF a = NaN \/ b = NaN THEN NaN
    ELSE IF IsInf(a) THEN (IF IsInf(b) THEN NaN ELSE SignInf((a < 0) # (b < 0)))
    ELSE IF IsInf(b) THEN 0
    ELSE IF b = 0 THEN (IF a = 0 THEN NaN ELSE SignInf(a < 0))
    ELSE IF b > 0 THEN Sat(RoundDiv(a * Scale, b))
    ELSE Sat(RoundDiv(-(a * Scale), -b))

\* IEEE max: torch.clamp(min=...) as binary_cross_entropy uses it on a log
FMax(a, b) == IF a = NaN \/ b = NaN THEN NaN ELSE Max2(a, b)

\* e^n in units of 1/(Scale * Scale), for the integers n of small powers
ExpFine(n) ==
    CASE n = -6 -> 25     [] n = -5 -> 67      [] n = -4 -> 183
      [] n = -3 -> 498    [] n = -2 -> 1353    [] n = -1 -> 3679
      [] n = 0  -> 10000  [] n = 1  -> 27183   [] n = 2  -> 73891
      [] n = 3  -> 200855 [] n = 4  -> 545982  [] n = 5  -> 1484132

\* e^n in units of 1/Scale, for the integers n of large representable powers
ExpInt(n) ==
    CASE n = 6  -> 40343  [] n = 7  -> 109663  [] n = 8  -> 298096
      [] n = 9  -> 810308 [] n = 10 -> 2202647 [] n = 11 -> 5987414

\* e^(f / Scale) for 0 <= f < Scale: the Taylor polynomial of degree 4
ExpFrac(f) ==
    Scale + f + RoundDiv(f * f, 2 * Scale)
          + RoundDiv(f * f * f, 6 * Scale * Scale)
          + RoundDiv((f * f) * (f * f), 24 * Scale * Scale * Scale)

\* torch.exp
FExp(x) ==
    IF x = NaN THEN NaN
    ELSE IF x = PInf THEN PInf
    ELSE IF x = NInf THEN 0
    ELSE LET n == x \div Scale
             f == x % Scale
         IN  IF n >= 12 THEN PInf
             ELSE IF n < -6 THEN 0
             ELSE IF n <= 5 THEN RoundDiv(ExpFine(n) * ExpFrac(f), Scale * Scale)
             ELSE FMul(ExpInt(n), ExpFrac(f))

RECURSIVE Log2Floor(_)
\* the k >= 0 with 2^k <= v < 2^(k+1), for v >= 1
Log2Floor(v) == IF v < 2 THEN 0 ELSE 1 + Log2Floor(v \div 2)

RECURSIVE Pow2(_)
Pow2(k) == IF k = 0 THEN 1 ELSE 2 * Pow2(k - 1)

\* ln(m / Scale) for Scale <= m <= 2 * Scale: 2 * atanh((m - 1)/(m + 1)), in
\* units of 1/(Scale * Scale) inside and rounded once at the end
LogMant(m) ==
    LET q  == Scale * Scale
        z  == RoundDiv((m - Scale) * q, m + Scale)
        z2 == RoundDiv(z * z, q)
        z3 == RoundDiv(z2 * z, q)
        z5 == RoundDiv(z3 * z2, q)
        z7 == RoundDiv(z5 * z2, q)
    IN  RoundDiv(2 * (z + RoundDiv(z3, 3) + RoundDiv(z5, 5) + RoundDiv(z7, 7)), Scale)

Ln2Fine == 6931          \* ln 2 in units of 1/(Scale * Scale)

\* torch.log
FLog(v) ==
    IF v = NaN \/ v < 0 THEN NaN
    ELSE IF v = 0 THEN NInf
    ELSE IF v = PInf THEN PInf
    ELSE IF v >= Scale
         THEN LET k == Log2Floor(v \div Scale)
                  m == RoundDiv(v, Pow2(k))
              IN  RoundDiv(k * Ln2Fine, Scale) + LogMant(m)
         ELSE \* v / Scale < 1: ln v = -ln(1 / v)
              LET r == RoundDiv(Scale * Scale, v)
                  k == Log2Floor(r \div Scale)
                  m == RoundDiv(r, Pow2(k))
              IN  -(RoundDiv(k * Ln2Fine, Scale) + LogMant(m))

FAbs(a) == IF a = NaN THEN NaN ELSE Abs(a)

RECURSIVE FSumRange(_, _, _)
\* f[lo] + ... + f[hi] in binary32 (torch.sum over one dimension)
FSumRange(f, lo, hi) ==
    IF hi < lo THEN 0 ELSE FAdd(FSumRange(f, lo, hi - 1), f[hi])

\* tensor.float() of a binary64 value (cb.py line 60)
ToFloat32(v) == RoundDiv(v * Scale, DScale)

-----------------------------------------------------------------------------
(* cb.py: tensors.  A [batch] tensor is a tuple indexed 1..batch, a        *)
(* [batch, C] tensor a tuple of rows indexed 0..C-1 by class.              *)

Classes(C) == 0 .. (C - 1)

\* torch.sum of a [batch, C] tensor over all its elements
TensorSum(t, C) ==
    LET rows == [i \in DOMAIN t |-> FSumRange(t[i], 0, C - 1)]
    IN  FSumRange(rows, 1, Len(rows))

\* reduction = "mean": the sum divided by the number of elements
TensorMean(t, C) == FDiv(TensorSum(t, C), (Len(t) * C) * Scale)

\* F.one_hot(labels, C).float() (cb.py line 58)
OneHot(lab, C) ==
    [i \in DOMAIN lab |-> [j \in Classes(C) |-> IF lab[i] = j THEN Scale ELSE 0]]

\* F.one_hot raises when a class value is outside 0..C-1
OneHotRaises(lab, C) == \E i \in DOMAIN lab : lab[i] < 0 \/ lab[i] >= C

-----------------------------------------------------------------------------
(* cb.py lines 54-56: the class weights, in binary64.                      *)

\* line 54: effective_num = 1.0 - np.power(beta, samples_per_cls)
EffectiveNum(b, spc) ==
    [c \in Classes(Len(spc)) |-> DScale - DPow(b, spc[c + 1])]

\* A deliberately wrong variant of RawWeights: the quotient inverted, effective_num / (1.0 - beta)
RawWeights_Inverted(b, spc) ==
    LET effective_num == EffectiveNum(b, spc)
    IN  [c \in Classes(Len(spc)) |-> DDiv(effective_num[c], DScale - b)]

\* line 55: weights = (1.0 - beta) / np.array(effective_num)
RawWeights(b, spc) ==
    LET effective_num == EffectiveNum(b, spc)
    IN  [c \in Classes(Len(spc)) |-> DDiv(DScale - b, effective_num[c])]

\* np.sum(weights)
NpSum(w, n) == SumRange(w, 0, n - 1)

\* A deliberately wrong variant of ClassWeights: the factor no_of_classes left out
ClassWeights_NoScale(b, spc, C) ==
    LET weights == RawWeights(b, spc)
        total   == NpSum(weights, Len(spc))
    IN  [c \in Classes(Len(spc)) |-> DDiv(weights[c], total)]

\* line 56: weights = weights / np.sum(weights) * no_of_classes
ClassWeights(b, spc, C) ==
    LET weights == RawWeights(b, spc)
        total   == NpSum(weights, Len(spc))
    IN  [c \in Classes(Len(spc)) |-> DDiv(weights[c], total) * C]

-----------------------------------------------------------------------------
(* cb.py lines 58-67: the per-example weight tensor.                       *)

\* A deliberately wrong variant of WeightTensor: line 63 without the product with labels_one_hot, so
\* that sum(1) adds the weights of all classes
WeightTensor_NoMask(lab, b, spc, C) ==
    LET B   == Len(lab)
        cw  == ClassWeights(b, spc, C)
        w60 == [c \in Classes(C) |-> ToFloat32(cw[c])]
        w65 == [i \in 1 .. B |-> FSumRange(w60, 0, C - 1)]
    IN  [i \in 1 .. B |-> [j \in Classes(C) |-> w65[i]]]

WeightTensor(lab, b, spc, C) ==
    LET B             == Len(lab)
        labels_one_hot == OneHot(lab, C)
        cw   == ClassWeights(b, spc, C)
        \* 60: torch.tensor(weights).float(), shape [C]
        w60  == [c \in Classes(C) |-> ToFloat32(cw[c])]
        \* 61: unsqueeze(0), shape [1, C]
        w61  == <<w60>>
        \* 63: repeat(batch, 1) * labels_one_hot, shape [batch, C]
        rep  == [i \in 1 .. B |-> w61[((i - 1) % Len(w61)) + 1]]
        w63  == [i \in 1 .. B |->
                   [j \in Classes(C) |-> FMul(rep[i][j], labels_one_hot[i][j])]]
        \* 65: sum(1), shape [batch]
        w65  == [i \in 1 .. B |-> FSumRange(w63[i], 0, C - 1)]
        \* 66: unsqueeze(1), shape [batch, 1]
        w66  == [i \in 1 .. B |-> [j \in Classes(1) |-> w65[i]]]
        \* 67: repeat(1, C), shape [batch, C]
    IN  [i \in 1 .. B |-> [j \in Classes(C) |-> w66[i][j % 1]]]

-----------------------------------------------------------------------------
(* The base losses.                                                        *)

\* F.binary_cross_entropy_with_logits, reduction "none", one element:
\* max(x, 0) - x * y + log(1 + exp(-|x|))
BCEWithLogits(x, y) ==
    FAdd(FSub(FMax(x, 0), FMul(x, y)),
         FLog(FAdd(Scale, FExp(FNeg(FAbs(x))))))

\* A deliberately wrong variant of Modulator: the signs of the exponent flipped
Modulator_SignFlipped(y, x, g) ==
    IF g = 0 THEN Scale
    ELSE FExp(FAdd(FMul(FMul(g, y), x),
                   FMul(g, FLog(FAdd(Scale, FExp(FMul(-Scale, x)))))))

\* A deliberately wrong variant of Modulator: the exponential evaluated for gamma = 0 too
Modulator_NoBranch(y, x, g) ==
    FExp(FSub(FMul(FMul(FNeg(g), y), x),
              FMul(g, FLog(FAdd(Scale, FExp(FMul(-Scale, x)))))))

\* cb.py lines 23-27, one element of the modulator
Modulator(y, x, g) ==
    IF g = 0 THEN Scale
    ELSE FExp(FSub(FMul(FMul(FNeg(g), y), x),
                   FMul(g, FLog(FAdd(Scale, FExp(FMul(-Scale, x)))))))

\* cb.py lines 7-35: focal_loss(labels, logits, alpha, gamma)
FocalLoss(lab1h, lg, alpha, g, C) ==
    LET BCLoss == [i \in DOMAIN lg |->
                     [j \in Classes(C) |-> BCEWithLogits(lg[i][j], lab1h[i][j])]]
        loss   == [i \in DOMAIN lg |->
                     [j \in Classes(C) |->
                        FMul(Modulator(lab1h[i][j], lg[i][j], g), BCLoss[i][j])]]
        weighted_loss == [i \in DOMAIN lg |->
                     [j \in Classes(C) |-> FMul(alpha[i][j], loss[i][j])]]
        focal_loss == TensorSum(weighted_loss, C)
    IN  \* line 34: focal_loss /= torch.sum(labels)
        FDiv(focal_loss, TensorSum(lab1h, C))

\* cb.py line 72: binary_cross_entropy_with_logits(weight = weights), mean
SigmoidLoss(lab1h, lg, w, C) ==
    TensorMean([i \in DOMAIN lg |->
                  [j \in Classes(C) |->
                     FMul(w[i][j], BCEWithLogits(lg[i][j], lab1h[i][j]))]], C)

RECURSIVE FMaxRange(_, _, _)
FMaxRange(f, lo, hi) ==
    IF hi = lo THEN f[lo] ELSE FMax(FMaxRange(f, lo, hi - 1), f[hi])

\* cb.py line 74: logits.softmax(dim = 1), one row
Softmax(row, C) ==
    LET m == FMaxRange(row, 0, C - 1)
        e == [j \in Classes(C) |-> FExp(FSub(row[j], m))]
        z == FSumRange(e, 0, C - 1)
    IN  [j \in Classes(C) |-> FDiv(e[j], z)]

LogClamp == -100 * Scale   \* F.binary_cross_entropy clamps its logs at -100

\* F.binary_cross_entropy, one element:
\* -w * (y * max(log p, -100) + (1 - y) * max(log(1 - p), -100))
BCE(p, y, w) ==
    FMul(w, FNeg(FAdd(FMul(y, FMax(FLog(p), LogClamp)),
                      FMul(FSub(Scale, y), FMax(FLog(FSub(Scale, p)), LogClamp)))))

\* cb.py lines 74-75
SoftmaxLoss(lab1h, lg, w, C) ==
    LET pred == [i \in DOMAIN lg |-> Softmax(lg[i], C)]
    IN  TensorMean([i \in DOMAIN lg |->
                      [j \in Classes(C) |-> BCE(pred[i][j], lab1h[i][j], w[i][j])]], C)

-----------------------------------------------------------------------------
(* cb.py lines 39-76: CB_loss.                                             *)

\* ret: the outcome of a call, the value returned, and the locals the claims
\* are about: class_weights is `weights` after line 56, weights after line 67
NoCall == [outcome |-> "none", error |-> "", value |-> 0,
           class_weights |-> <<>>, weights |-> <<>>]

Returned(v, cw, w) == [outcome |-> "returned", error |-> "", value |-> v,
                       class_weights |-> cw, weights |-> w]

Raised(e) == [outcome |-> "raised", error |-> e, value |-> 0,
              class_weights |-> <<>>, weights |-> <<>>]

\* A deliberately wrong variant of CB_loss: an unknown loss_type treated as "sigmoid"
CB_loss_DefaultBranch(lab, lg, spc, C, lt, b, g) ==
    IF OneHotRaises(lab, C) THEN Raised("RuntimeError")
    ELSE LET labels_one_hot == OneHot(lab, C)
             cw             == ClassWeights(b, spc, C)
             weights        == WeightTensor(lab, b, spc, C)
         IN  CASE lt = "focal"   ->
                    Returned(FocalLoss(labels_one_hot, lg, weights, g, C), cw, weights)
               [] lt = "softmax" ->
                    Returned(SoftmaxLoss(labels_one_hot, lg, weights, C), cw, weights)
               [] OTHER ->
                    Returned(SigmoidLoss(labels_one_hot, lg, weights, C), cw, weights)

CB_loss(lab, lg, spc, C, lt, b, g) ==
    IF OneHotRaises(lab, C) THEN Raised("RuntimeError")          \* line 58
    ELSE LET labels_one_hot == OneHot(lab, C)
             cw             == ClassWeights(b, spc, C)
             weights        == WeightTensor(lab, b, spc, C)
         IN  CASE lt = "focal"   ->
                    Returned(FocalLoss(labels_one_hot, lg, weights, g, C), cw, weights)
               [] lt = "sigmoid" ->
                    Returned(SigmoidLoss(labels_one_hot, lg, weights, C), cw, weights)
               [] lt = "softmax" ->
                    Returned(SoftmaxLoss(labels_one_hot, lg, weights, C), cw, weights)
               \* no branch assigns cb_loss: line 76 reads an unbound local
               [] OTHER -> Raised("UnboundLocalError")

\* A deliberately wrong variant of ArgsAfterCall: focal_loss negating the logits in place
\* (logits *= -1.0 instead of -1.0 * logits in line 27)
ArgsAfterCall_InPlace(a, lt) ==
    IF lt = "focal"
    THEN [a EXCEPT !.logits =
            [i \in DOMAIN a.logits |->
               [j \in DOMAIN a.logits[i] |-> FNeg(a.logits[i][j])]]]
    ELSE a

\* The caller's argument objects after a call.  Every statement of CB_loss and
\* focal_loss binds a new tensor to a local name; the one in-place operation
\* (line 34, focal_loss /= ...) acts on the tensor torch.sum just created.
ArgsAfterCall(a, lt) == a

CallerArgs == [labels |-> labels, logits |-> logits,
               samples_per_cls |-> samples_per_cls]

CallCBLoss ==
    /\ repeated' = (ret.outcome # "none")
    /\ ret' = CB_loss(labels, logits, samples_per_cls, no_of_classes,
                      loss_type, beta, gamma)
    /\ LET after == ArgsAfterCall(CallerArgs, loss_type)
       IN  /\ labels' = after.labels
           /\ logits' = after.logits
           /\ samples_per_cls' = after.samples_per_cls
    /\ UNCHANGED <<no_of_classes, loss_type, beta, gamma, args0>>
    /\ UNCHANGED mainVars

\* save_features.py does not run while CB_loss is examined
MainIdle ==
    /\ pc = "idle" /\ err = "" /\ args = <<>> /\ disk = <<>> /\ dirs = {}
    /\ fs = <<>> /\ out = {} /\ net = <<>> /\ data = <<>> /\ batches = <<>>
    /\ idx = 0

-----------------------------------------------------------------------------
(* The calls of CB_loss that are modelled.                                 *)

LossTypes == {"sigmoid", "softmax", "focal", "other"}

\* logits: one whose exp(-x) overflows, an ordinary one, one near MaxFloat
LogitVals == {-1300, 150, 9000000}

\* gamma: 0, 2 and one whose product with a logit overflows
GammaVals == {0, 200, 2000000}

BetaVals == {50, 500, 900}

TypeOKLoss ==
    /\ no_of_classes \in ClassCounts
    /\ Len(labels) \in 1 .. MaxBatch
    /\ Len(logits) = Len(labels)
    /\ Len(samples_per_cls) = no_of_classes
    /\ repeated \in BOOLEAN
    /\ ret.outcome \in {"none", "returned", "raised"}

\* Calls with every loss type, every gamma and every logit value, two classes;
\* and calls whose labels hold a class value that is not a class.
InitLoss ==
    /\ no_of_classes = 2
    /\ \E B \in 1 .. MaxBatch :
         \/ /\ labels \in [1 .. B -> Classes(2)]
            /\ logits \in [1 .. B -> [Classes(2) -> LogitVals]]
         \/ /\ labels \in [1 .. B -> 0 .. 2] \ [1 .. B -> Classes(2)]
            /\ logits = [i \in 1 .. B |-> [j \in Classes(2) |-> 150]]
    /\ samples_per_cls = <<1, 3>>
    /\ beta = 500
    /\ loss_type \in LossTypes
    \* only focal_loss reads gamma
    /\ gamma \in (IF loss_type = "focal" THEN GammaVals ELSE {2 * Scale})
    /\ args0 = CallerArgs
    /\ repeated = FALSE
    /\ ret = NoCall
    /\ MainIdle

\* Calls with every class-count list and beta; the logits do not matter.
InitWeights ==
    /\ no_of_classes \in ClassCounts
    /\ \E B \in 1 .. MaxBatch :
         /\ labels \in [1 .. B -> Classes(no_of_classes)]
         /\ logits = [i \in 1 .. B |-> [j \in Classes(no_of_classes) |-> 150]]
    /\ samples_per_cls \in [1 .. no_of_classes -> 1 .. MaxCount]
    /\ beta \in BetaVals
    /\ loss_type = "sigmoid"
    /\ gamma = 0
    /\ args0 = CallerArgs
    /\ repeated = FALSE
    /\ ret = NoCall
    /\ MainIdle

NextLoss == CallCBLoss

SpecLoss == InitLoss /\ [][NextLoss]_vars

SpecWeights == InitWeights /\ [][NextLoss]_vars

-----------------------------------------------------------------------------
(* save_features.py: the command line and parse_args.                      *)

\* CB_loss is not called while save_features.py runs
LossIdle ==
    /\ labels = <<>> /\ logits = <<>> /\ samples_per_cls = <<>>
    /\ no_of_classes = 0 /\ loss_type = "" /\ beta = 0 /\ gamma = 0
    /\ args0 = <<>> /\ repeated = FALSE /\ ret = NoCall

\* the directory parse_args creates, and the two the export loops create
SaveFolder == "save_folder"
TrainDir == "features_train"
TestDir == "features_test"

\* the class lists parse_args knows
LungSound4 == <<"normal", "crackle", "wheeze", "both">>
LungSound2 == <<"normal", "abnormal">>
Diagnosis3 == <<"healthy", "chronic_diseases", "non-chronic_diseases">>
Diagnosis2 == <<"healthy", "unhealthy">>

\* the two levels of the dataset branch that assign args.cls_list; the
\* result is <<>> where no branch assigns it
ClsListFor(class_split, n_cls) ==
    IF class_split = "lungsound"
    THEN IF n_cls = 4 THEN LungSound4
         ELSE IF n_cls = 2 THEN LungSound2 ELSE <<>>
    ELSE IF class_split = "diagnosis"
         THEN IF n_cls = 3 THEN Diagnosis3
              ELSE IF n_cls = 2 THEN Diagnosis2 ELSE <<>>
         ELSE <<>>

\* the dataset branch: which exception it raises ("" for none)
DatasetCheck(a) == IF a.dataset = "icbhi" THEN "" ELSE "NotImplementedError"

\* the assertion on the model of the patch-mix methods
MethodCheck(a) ==
    IF a.method \in {"patchmix", "patchmix_cl"} /\ a.model \notin {"ast", "ssast"}
    THEN "AssertionError" ELSE ""

\* the namespace once the warm-up block has run
WithWarm(a) == IF a.warm THEN [a EXCEPT !.warm_epochs = 10] ELSE a

\* the namespace once the dataset branch has run
WithClsList(a) ==
    LET cl == ClsListFor(a.class_split, a.n_cls)
    IN  IF cl = <<>> THEN a
        ELSE [a EXCEPT !.has_cls_list = TRUE, !.cls_list = cl]

\* parse_args: what it leaves in the namespace, whether it returns, and
\* whether it reached the creation of the save folder
ParseResult(a) ==
    LET a1 == [a EXCEPT !.save_folder = SaveFolder]
        a2 == WithWarm(a1)
    IN  IF MethodCheck(a) # ""
        THEN [args |-> a, err |-> MethodCheck(a), mkdir |-> FALSE]
        ELSE IF DatasetCheck(a) # ""
             THEN [args |-> a2, err |-> DatasetCheck(a), mkdir |-> TRUE]
             ELSE [args |-> WithClsList(a2), err |-> "", mkdir |-> TRUE]

ParseArgs ==
    /\ pc = "start"
    /\ LET r == ParseResult(args)
       IN  /\ args' = r.args
           /\ err' = r.err
           /\ dirs' = IF r.mkdir THEN dirs \cup {SaveFolder} ELSE dirs
           /\ pc' = IF r.err = "" THEN "parsed" ELSE "error"
    /\ UNCHANGED <<disk, fs, out, net, data, batches, idx>>
    /\ UNCHANGED lossVars

\* a command line as argparse leaves it: the options the run reads, the
\* attributes parse_args adds still absent
CommandLine(ds, cs, n, me, mo, w, re, pt, ws, bs) ==
    [dataset |-> ds, class_split |-> cs, n_cls |-> n, method |-> me,
     model |-> mo, warm |-> w, resume |-> re, pretrained |-> pt,
     weighted_sampler |-> ws, batch_size |-> bs, patch_size |-> 16,
     save_folder |-> "", warm_epochs |-> 0,
     has_cls_list |-> FALSE, cls_list |-> <<>>,
     h |-> 0, w |-> 0, start_epoch |-> ""]

Datasets == {"icbhi", "other"}
ClassSplits == {"lungsound", "diagnosis", "other"}
ClassNumbers == {2, 3, 4}
Methods == {"ce", "patchmix"}
Models == {"ast", "resnet18"}

\* the files and directories an earlier run with the same patch size left
StaleFile == [kind |-> "stale", split |-> "", batch |-> <<>>, weights |-> ""]

\* every command line, before main has done anything
InitArgs ==
    /\ LossIdle
    /\ pc = "start" /\ err = ""
    /\ \E ds \in Datasets, cs \in ClassSplits, n \in ClassNumbers,
          me \in Methods, mo \in Models, w \in BOOLEAN :
          args = CommandLine(ds, cs, n, me, mo, w, "", FALSE, FALSE, 1)
    /\ disk = [resume |-> FALSE, pretrained_ckpt |-> FALSE]
    /\ dirs \in {{}, {SaveFolder}}
    /\ fs = <<>> /\ out = {}
    /\ net = [weights |-> "", optimizer |-> ""]
    /\ data = [train |-> 0, val |-> 0]
    /\ batches = [train |-> <<>>, test |-> <<>>]
    /\ idx = 0

NextArgs == ParseArgs

SpecArgs == InitArgs /\ [][NextArgs]_vars

-----------------------------------------------------------------------------
(* save_features.py: main after parse_args.                                *)

\* str(n) of a non-negative index, as its decimal digits
RECURSIVE Str(_)
Str(n) == IF n < 10 THEN <<n>> ELSE Str(n \div 10) \o <<n % 10>>

\* A deliberately wrong variant of Zfill: the text cut to the width
Zfill_Truncating(s, width) ==
    IF Len(s) >= width THEN SubSeq(s, Len(s) - width + 1, Len(s))
    ELSE [i \in 1..(width - Len(s)) |-> 0] \o s

\* s.zfill(width): zeros on the left up to the width, s itself beyond it
Zfill(s, width) ==
    IF Len(s) >= width THEN s
    ELSE [i \in 1..(width - Len(s)) |-> 0] \o s

ZfillWidth == 5

\* the path of a file: its directory, the text before the index, the index
FeaturePath(split, i) ==
    <<(IF split = "train" THEN TrainDir ELSE TestDir),
      (IF split = "train" THEN "feature_train_" ELSE "feature_test_"),
      Zfill(Str(i), ZfillWidth)>>

LabelPath(split, i) ==
    <<(IF split = "train" THEN TrainDir ELSE TestDir),
      (IF split = "train" THEN "label_train_" ELSE "label_test_"),
      Zfill(Str(i), ZfillWidth)>>

ArgsPath == <<SaveFolder, "train_args.json", <<>>>>

\* what torch.save(features, ...) and torch.save(labels, ...) write for a batch
FeatureFile(split, batch, weights) ==
    [kind |-> "feature", split |-> split, batch |-> batch, weights |-> weights]

LabelFile(split, batch) ==
    [kind |-> "label", split |-> split, batch |-> batch, weights |-> ""]

ArgsFile == [kind |-> "args", split |-> "", batch |-> <<>>, weights |-> ""]

\* open(path, 'w') and torch.save: the file is created or replaced
WriteFile(f, path, content) ==
    [p \in (DOMAIN f) \cup {path} |-> IF p = path THEN content ELSE f[p]]

\* A deliberately wrong variant of NumBatches: the last partial batch kept
NumBatches_KeepLast(n, bs, drop_last) == (n + bs - 1) \div bs

\* the batches a DataLoader yields for an order of dataset indices
NumBatches(n, bs, drop_last) ==
    IF drop_last THEN n \div bs ELSE (n + bs - 1) \div bs

Min2(a, b) == IF a < b THEN a ELSE b

Chunks(order, bs, drop_last) ==
    [k \in 1..NumBatches(Len(order), bs, drop_last) |->
        SubSeq(order, (k - 1) * bs + 1, Min2(k * bs, Len(order)))]

\* shuffle=True: a permutation of the dataset
Shuffles(n) ==
    {s \in [1..n -> 0..(n - 1)] : \A i, j \in 1..n : s[i] = s[j] => i = j}

\* WeightedRandomSampler(weights, len(dataset)): as many draws as the
\* dataset has samples, with replacement, every weight being positive
WeightedDraws(n) == [1..n -> 0..(n - 1)]

\* shuffle=False
Sequential(n) == [i \in 1..n |-> i - 1]

\* main, lines 323-336: the namespace is dumped into the save folder
DumpArgs ==
    /\ pc = "parsed"
    /\ fs' = WriteFile(fs, ArgsPath, ArgsFile)
    /\ pc' = "dumped"
    /\ UNCHANGED <<err, args, disk, dirs, out, net, data, batches, idx>>
    /\ UNCHANGED lossVars

\* set_loader: the two datasets are read and the two loaders are built
SetLoader ==
    /\ pc = "dumped"
    /\ IF args.dataset = "icbhi"
       THEN /\ \E nt \in 1..MaxSamples, nv \in 1..MaxSamples :
                  data' = [train |-> nt, val |-> nv]
            /\ args' = [args EXCEPT !.h = 1024, !.w = 256]
            /\ pc' = "loaded"
            /\ err' = err
       ELSE /\ pc' = "error"
            /\ err' = "TypeError"
            /\ UNCHANGED <<data, args>>
    /\ UNCHANGED <<disk, dirs, fs, out, net, batches, idx>>
    /\ UNCHANGED lossVars

\* set_model, lines 273-297: which weights the constructed model holds
ConstructedWeights(a) ==
    IF a.model \notin {"ast", "ssast"} THEN "sl_official" ELSE "constructed"

PretrainedLoad(a, d) ==
    IF a.pretrained
    THEN IF d.pretrained_ckpt
         THEN [err |-> "", weights |-> "pretrained_ckpt",
               out |-> {"pretrained model loaded from"}]
         ELSE [err |-> "FileNotFoundError", weights |-> "", out |-> {}]
    ELSE [err |-> "", weights |-> ConstructedWeights(a), out |-> {}]

SetModel ==
    /\ pc = "loaded"
    /\ LET r == PretrainedLoad(args, disk)
       IN  /\ err' = r.err
           /\ out' = out \cup r.out
           /\ IF r.err = ""
              THEN /\ net' = [weights |-> r.weights, optimizer |-> "constructed"]
                   /\ pc' = "built"
              ELSE /\ net' = net
                   /\ pc' = "error"
    /\ UNCHANGED <<args, disk, dirs, fs, data, batches, idx>>
    /\ UNCHANGED lossVars

\* A deliberately wrong variant of ResumeLoad: no os.path.isfile test
ResumeLoad_Unchecked(a, d, n) ==
    IF a.resume # ""
    THEN [net |-> [weights |-> "resume", optimizer |-> "resume"],
          start_epoch |-> "checkpoint+1",
          out |-> {"=> loading checkpoint", "=> loaded checkpoint"}]
    ELSE [net |-> n, start_epoch |-> "1", out |-> {}]

\* main, lines 341-353: the checkpoint to resume from
ResumeLoad(a, d, n) ==
    IF a.resume # ""
    THEN IF d.resume
         THEN [net |-> [weights |-> "resume", optimizer |-> "resume"],
               start_epoch |-> "checkpoint+1",
               out |-> {"=> loading checkpoint", "=> loaded checkpoint"}]
         ELSE [net |-> n, start_epoch |-> a.start_epoch,
               out |-> {"=> no checkpoint found at"}]
    ELSE [net |-> n, start_epoch |-> "1", out |-> {}]

Resume ==
    /\ pc = "built"
    /\ LET r == ResumeLoad(args, disk, net)
       IN  /\ net' = r.net
           /\ args' = [args EXCEPT !.start_epoch = r.start_epoch]
           /\ out' = out \cup r.out
    /\ pc' = "resumed"
    /\ UNCHANGED <<err, disk, dirs, fs, data, batches, idx>>
    /\ UNCHANGED lossVars

\* line 361: enumerate(train_loader) draws the order of the epoch
TrainOrders(a, n) == IF a.weighted_sampler THEN WeightedDraws(n) ELSE Shuffles(n)

BeginTrain ==
    /\ pc = "resumed"
    /\ \E order \in TrainOrders(args, data.train) :
          batches' = [batches EXCEPT !.train = Chunks(order, args.batch_size, TRUE)]
    /\ idx' = 0
    /\ pc' = "train"
    /\ UNCHANGED <<err, args, disk, dirs, fs, out, net, data>>
    /\ UNCHANGED lossVars

\* one iteration of an export loop: the directory, then the two files
Export(f, split, i, batch, weights) ==
    WriteFile(WriteFile(f, FeaturePath(split, i), FeatureFile(split, batch, weights)),
              LabelPath(split, i), LabelFile(split, batch))

\* lines 361-371
TrainBatch ==
    /\ pc = "train"
    /\ idx < Len(batches.train)
    /\ dirs' = dirs \cup {TrainDir}
    /\ fs' = Export(fs, "train", idx, batches.train[idx + 1], net.weights)
    /\ idx' = idx + 1
    /\ UNCHANGED <<pc, err, args, disk, out, net, data, batches>>
    /\ UNCHANGED lossVars

\* line 375: the train loader is exhausted, enumerate(val_loader) starts
BeginTest ==
    /\ pc = "train"
    /\ idx = Len(batches.train)
    /\ batches' = [batches EXCEPT
                     !.test = Chunks(Sequential(data.val), args.batch_size, FALSE)]
    /\ idx' = 0
    /\ pc' = "test"
    /\ UNCHANGED <<err, args, disk, dirs, fs, out, net, data>>
    /\ UNCHANGED lossVars

\* lines 375-385
TestBatch ==
    /\ pc = "test"
    /\ idx < Len(batches.test)
    /\ dirs' = dirs \cup {TestDir}
    /\ fs' = Export(fs, "test", idx, batches.test[idx + 1], net.weights)
    /\ idx' = idx + 1
    /\ UNCHANGED <<pc, err, args, disk, out, net, data, batches>>
    /\ UNCHANGED lossVars

\* the validation loader is exhausted and main returns
Finish ==
    /\ pc = "test"
    /\ idx = Len(batches.test)
    /\ pc' = "done"
    /\ UNCHANGED <<err, args, disk, dirs, fs, out, net, data, batches, idx>>
    /\ UNCHANGED lossVars

\* an index no run of the model reaches, left behind by an earlier run
StaleIndex == 7

StaleFiles ==
    [p \in {FeaturePath("train", 0), LabelPath("train", 0),
            FeaturePath("train", StaleIndex), LabelPath("train", StaleIndex)}
        |-> StaleFile]

\* the command lines main is followed on, the checkpoint files that exist
\* and what earlier runs left
Init ==
    /\ LossIdle
    /\ pc = "start" /\ err = ""
    /\ \E cs \in {"lungsound", "other"}, mo \in Models, re \in {"", "ckpt"},
          pt \in BOOLEAN, ws \in BOOLEAN, bs \in {1, 2} :
          args = CommandLine("icbhi", cs, 4, "ce", mo, FALSE, re, pt, ws, bs)
    /\ disk \in [resume : BOOLEAN, pretrained_ckpt : BOOLEAN]
    /\ \/ dirs = {} /\ fs = <<>>
       \/ dirs = {TrainDir} /\ fs = StaleFiles
    /\ out = {}
    /\ net = [weights |-> "", optimizer |-> ""]
    /\ data = [train |-> 0, val |-> 0]
    /\ batches = [train |-> <<>>, test |-> <<>>]
    /\ idx = 0

Next ==
    \/ ParseArgs
    \/ DumpArgs
    \/ SetLoader
    \/ SetModel
    \/ Resume
    \/ BeginTrain
    \/ TrainBatch
    \/ BeginTest
    \/ TestBatch
    \/ Finish

Spec == Init /\ [][Next]_vars

TypeOK ==
    /\ pc \in {"start", "parsed", "dumped", "loaded", "built", "resumed",
               "train", "test", "done", "error"}
    /\ err \in {"", "AssertionError", "NotImplementedError", "TypeError",
                "FileNotFoundError"}
    /\ idx \in 0..MaxSamples
    /\ dirs \subseteq {SaveFolder, TrainDir, TestDir}

-----------------------------------------------------------------------------
(* Claims about cb.py.                                                     *)

Called == ret.outcome # "none"

HasReturned == ret.outcome = "returned"

KnownLossType == loss_type \in {"sigmoid", "softmax", "focal"}

LabelsOneHot == OneHot(labels, no_of_classes)

\* every logit is small enough that weight * loss and the sums of the batch
\* stay far inside the binary32 range (exp(-logit) may still overflow)
ModerateLogits ==
    \A i \in DOMAIN logits : \A j \in Classes(no_of_classes) :
        Abs(logits[i][j]) <= 13 * Scale

ModerateGamma == gamma <= 2 * Scale

\* the inputs for which no product or sum of the chosen base loss overflows
NoOverflowInputs ==
    CASE loss_type = "softmax" -> TRUE
      [] loss_type = "sigmoid" -> ModerateLogits
      [] OTHER                 -> ModerateLogits /\ ModerateGamma

\* C1 (as amended): for valid inputs whose logits (and, for "focal", gamma) are
\* moderate enough that no intermediate product or sum overflows binary32, the
\* loss CB_loss returns is finite and non-negative; for "softmax" this holds
\* for every finite logit, and the "sigmoid" and "softmax" losses are never
\* NaN.
C1_LossFiniteNonNegative ==
    HasReturned =>
        /\ NoOverflowInputs => (IsFinite(ret.value) /\ ret.value >= 0)
        /\ loss_type \in {"sigmoid", "softmax"} =>
               (ret.value # NaN /\ ret.value >= 0)

\* C1 as stated: the loss is finite and non-negative for all valid inputs.
C1_Original == HasReturned => (IsFinite(ret.value) /\ ret.value >= 0)

\* C1's case: a focal loss of a batch with a logit whose exp(-x) overflows.
C1_Witness ==
    /\ HasReturned /\ loss_type = "focal" /\ gamma > 0 /\ NoOverflowInputs
    /\ \E i \in DOMAIN logits : logits[i][0] < 0 /\ logits[i][1] > 0
    /\ ret.value > 0

\* the sum the "sigmoid" branch averages: weights * BCE over all elements
WeightedBCESum ==
    TensorSum([i \in DOMAIN logits |->
                 [j \in Classes(no_of_classes) |->
                    FMul(ret.weights[i][j],
                         BCEWithLogits(logits[i][j], LabelsOneHot[i][j]))]],
              no_of_classes)

SigmoidValue ==
    CB_loss(labels, logits, samples_per_cls, no_of_classes, "sigmoid", beta,
            gamma).value

\* C3 (as amended): with gamma = 0 the focal loss is the sum of the weighted
\* binary cross-entropy elements divided by sum(labels), the batch size, where
\* the "sigmoid" branch divides the same sum by batch * no_of_classes; so it
\* is no_of_classes times the "sigmoid" loss, up to rounding.
C3_FocalGammaZero ==
    (HasReturned /\ loss_type = "focal" /\ gamma = 0) =>
        /\ ret.value = FDiv(WeightedBCESum, Len(labels) * Scale)
        /\ IsFinite(ret.value) =>
               Abs(ret.value - no_of_classes * SigmoidValue) <= no_of_classes

\* C3 as stated: with gamma = 0 "focal" returns what "sigmoid" returns.
C3_Original ==
    (HasReturned /\ loss_type = "focal" /\ gamma = 0) => ret.value = SigmoidValue

C3_Witness ==
    /\ HasReturned /\ loss_type = "focal" /\ gamma = 0
    /\ Len(labels) = 2 /\ labels[1] # labels[2]
    /\ IsFinite(ret.value) /\ ret.value > 0

ClassWeightSum == NpSum(ret.class_weights, no_of_classes)

\* C2 (as amended): the normalized class weights sum to no_of_classes up to
\* rounding: each of the no_of_classes quotients weights / sum is rounded, so
\* the sum is within no_of_classes^2 / 2 units in the last place of it.
C2_WeightsSumToClasses ==
    HasReturned =>
        2 * Abs(ClassWeightSum - no_of_classes * DScale)
            <= no_of_classes * no_of_classes

\* C2 as stated: the normalized class weights sum to no_of_classes.
C2_Original == HasReturned => ClassWeightSum = no_of_classes * DScale

C2_Witness ==
    /\ HasReturned /\ no_of_classes = 3
    /\ ret.class_weights[0] # ret.class_weights[1]
    /\ ClassWeightSum # no_of_classes * DScale

\* C10 (as amended): the unnormalized weight of a class is (1 - beta) divided
\* by 1 - beta^n; a class with fewer samples never has the smaller normalized
\* weight (it has an equal one when beta^n rounds away for both), and every
\* weight is positive.
C10_RareClassesWeighMore ==
    HasReturned =>
        LET eff == EffectiveNum(beta, samples_per_cls)
            raw == RawWeights(beta, samples_per_cls)
        IN  \A a \in Classes(no_of_classes) :
              /\ ret.class_weights[a] > 0
              /\ 2 * Abs(raw[a] * eff[a] - (DScale - beta) * DScale) <= eff[a]
              /\ \A b \in Classes(no_of_classes) :
                    samples_per_cls[a + 1] < samples_per_cls[b + 1] =>
                        ret.class_weights[a] >= ret.class_weights[b]

\* C10 as stated: fewer samples give a strictly greater normalized weight.
C10_Original ==
    HasReturned =>
        \A a, b \in Classes(no_of_classes) :
            /\ ret.class_weights[a] > 0
            /\ samples_per_cls[a + 1] < samples_per_cls[b + 1] =>
                   ret.class_weights[a] > ret.class_weights[b]

C10_Witness ==
    /\ HasReturned /\ no_of_classes = 3
    /\ samples_per_cls[1] < samples_per_cls[2]
    /\ samples_per_cls[2] < samples_per_cls[3]
    /\ ret.class_weights[0] > ret.class_weights[1]
    /\ ret.class_weights[1] = ret.class_weights[2]

-----------------------------------------------------------------------------
(* Claims about save_features.py.                                          *)

ParseReturned == pc = "parsed"

\* C4: whenever parse_args returns, args.cls_list is set and has n_cls
\* entries, so every unsupported combination of dataset, class split and
\* number of classes has raised.  The dataset branch has no else under
\* either class split and none for an unknown class split: such command
\* lines return a namespace without cls_list.
C4_Original ==
    ParseReturned => (args.has_cls_list /\ Len(args.cls_list) = args.n_cls)

C4_Witness ==
    /\ ParseReturned
    /\ args.class_split = "lungsound" /\ args.n_cls = 3
    /\ ~args.has_cls_list
    /\ err = ""

MissingResume == args.resume # "" /\ ~disk.resume

MissingPretrained == args.pretrained /\ ~disk.pretrained_ckpt

PastSetModel == pc \in {"built", "resumed", "train", "test", "done"}

PastResume == pc \in {"resumed", "train", "test", "done"}

\* the weights set_model returns when every file it reads exists
BuiltWeights ==
    IF args.pretrained THEN "pretrained_ckpt"
    ELSE IF args.model = "ast" THEN "constructed" ELSE "sl_official"

ExportedAll(split) ==
    \A i \in 0..(Len(batches[split]) - 1) :
        /\ FeaturePath(split, i) \in DOMAIN fs
        /\ fs[FeaturePath(split, i)].kind = "feature"
        /\ LabelPath(split, i) \in DOMAIN fs
        /\ fs[LabelPath(split, i)].kind = "label"

NothingExported == \A p \in DOMAIN fs : fs[p].kind \notin {"feature", "label"}

\* C5 (amended): a missing --resume file makes the run print "=> no
\* checkpoint found", load nothing and go on to an export that completes;
\* a missing --pretrained_ckpt file under --pretrained is not looked for
\* and ends the run in set_model with FileNotFoundError before any export.
C5_MissingResumeContinues ==
    /\ (MissingResume /\ PastResume) =>
          /\ "=> no checkpoint found at" \in out
          /\ "=> loaded checkpoint" \notin out
          /\ net = [weights |-> BuiltWeights, optimizer |-> "constructed"]
          /\ args.start_epoch = ""
          /\ err = ""
    /\ (MissingResume /\ ~MissingPretrained /\ args.dataset = "icbhi") =>
          /\ pc # "error"
          /\ (pc = "done" \/ ENABLED Next)
          /\ (pc = "done" => (ExportedAll("train") /\ ExportedAll("test")))
    /\ MissingPretrained =>
          /\ ~PastSetModel
          /\ NothingExported
          /\ (pc = "error" => err = "FileNotFoundError")
          /\ (pc \notin {"start", "parsed", "dumped", "loaded"} => pc = "error")

\* C5 as stated: no missing configured checkpoint file, --resume or
\* --pretrained_ckpt, ends the run with an error
C5_Original ==
    (MissingResume \/ MissingPretrained) => err # "FileNotFoundError"

C5_Witness ==
    /\ pc = "done"
    /\ MissingResume
    /\ args.pretrained
    /\ "=> no checkpoint found at" \in out
    /\ net.weights = "pretrained_ckpt"
    /\ Len(batches.train) = 2
    /\ ExportedAll("train") /\ ExportedAll("test")

\* the batches of a loader the current pass has saved so far
Written(split) ==
    IF split = "train"
    THEN IF pc = "train" THEN idx
         ELSE IF pc \in {"test", "done"} THEN Len(batches.train) ELSE 0
    ELSE IF pc = "test" THEN idx
         ELSE IF pc = "done" THEN Len(batches.test) ELSE 0

FilesOf(kind, split) ==
    {p \in DOMAIN fs : fs[p].kind = kind /\ fs[p].split = split}

\* indices on both sides of the five-digit padding
ProbeIndices == (0..MaxSamples) \cup {10, 99999, 100000, 100001}

\* C6: each pass writes one feature file and one label file per batch
\* position, both named with the index enumerate gives, which runs 0, 1,
\* 2, ...; the pair of index i holds the output and labels of the i-th
\* batch drawn in that pass; and no two indices, above 99999 or not, share
\* a file name.
C6_OnePairPerBatch ==
    /\ \A split \in {"train", "test"} :
          /\ \A i \in 0..(Written(split) - 1) :
                /\ FeaturePath(split, i) \in DOMAIN fs
                /\ fs[FeaturePath(split, i)] =
                      FeatureFile(split, batches[split][i + 1], net.weights)
                /\ LabelPath(split, i) \in DOMAIN fs
                /\ fs[LabelPath(split, i)] = LabelFile(split, batches[split][i + 1])
          /\ Cardinality(FilesOf("feature", split)) = Written(split)
          /\ Cardinality(FilesOf("label", split)) = Written(split)
          /\ \A i, j \in ProbeIndices :
                /\ i # j => FeaturePath(split, i) # FeaturePath(split, j)
                /\ i # j => LabelPath(split, i) # LabelPath(split, j)
                /\ FeaturePath(split, i) # LabelPath(split, j)
    /\ pc \in {"train", "test"} => idx <= Len(batches[pc])

C6_Witness ==
    /\ pc = "done"
    /\ Len(batches.train) = 2 /\ Len(batches.test) = 2
    /\ batches.train[1] # <<0>>
    /\ FeaturePath("train", StaleIndex) \in DOMAIN fs
    /\ fs[FeaturePath("train", 1)] = FeatureFile("train", batches.train[2], net.weights)

ParseRejects == pc = "start" /\ pc' = "error"

\* C11: a run whose configuration parse_args rejects, by the patch-mix
\* assertion or by the dataset branch, has created no directory and no
\* file.  The save folder is made in lines 158-160, after the assertion
\* but before the dataset branch: an unsupported dataset leaves it behind.
C11_Original ==
    [][ParseRejects => (dirs' = dirs /\ fs' = fs)]_vars

C11_Witness ==
    /\ pc = "error"
    /\ err = "NotImplementedError"
    /\ args.dataset = "other"
    /\ SaveFolder \in dirs
    /\ DOMAIN fs = {}

\* the paths this run's passes have to write: one pair per batch
RunPaths(split) ==
    {FeaturePath(split, i) : i \in 0..(Len(batches[split]) - 1)}
        \cup {LabelPath(split, i) : i \in 0..(Len(batches[split]) - 1)}

\* the files present in the two output directories
OutputFiles == {p \in DOMAIN fs : p[1] \in {TrainDir, TestDir}}

\* C12: once main has completed, whatever the output directories held
\* before, they hold exactly the feature/label pairs of this run's
\* batches; no test file is written while the train pass runs, and the two
\* passes write disjoint paths.  Nothing in main removes a file: a pair
\* left by an earlier run at an index this run does not reach remains.
C12_Original ==
    /\ pc = "done" =>
          /\ OutputFiles = RunPaths("train") \cup RunPaths("test")
          /\ \A p \in OutputFiles : fs[p].kind # "stale"
    /\ pc = "train" => \A p \in DOMAIN fs : p[1] # TestDir
    /\ RunPaths("train") \cap RunPaths("test") = {}

C12_Witness ==
    /\ pc = "done"
    /\ Len(batches.train) = 2 /\ Len(batches.test) = 1
    /\ fs[FeaturePath("train", 0)].kind = "feature"
    /\ FeaturePath("train", StaleIndex) \in DOMAIN fs
    /\ fs[FeaturePath("train", StaleIndex)] = StaleFile
    /\ fs[LabelPath("train", StaleIndex)] = StaleFile

RECURSIVE Flatten(_)
Flatten(ss) == IF ss = <<>> THEN <<>> ELSE Head(ss) \o Flatten(Tail(ss))

\* the dataset indices in the feature files a pass wrote, in index order
ExportedSamples(split) ==
    Flatten([i \in 1..Len(batches[split]) |-> fs[FeaturePath(split, i - 1)].batch])

Range(s) == {s[i] : i \in 1..Len(s)}

NoRepeat(s) == \A i, j \in 1..Len(s) : s[i] = s[j] => i = j

\* C13 (amended): the test pass writes ceil(N/B) pairs that hold the
\* validation samples once each, in dataset order.  The train pass writes
\* floor(N/B) pairs of exactly B samples each (drop_last): N mod B samples
\* are missing from the export; without --weighted_sampler the exported
\* samples are distinct, with it they are drawn with replacement and may
\* repeat.
C13_TestCoversTrainDrops ==
    pc = "done" =>
       LET B == args.batch_size
           train == ExportedSamples("train")
           test == ExportedSamples("test")
       IN  /\ Len(batches.test) = (data.val + B - 1) \div B
           /\ test = [i \in 1..data.val |-> i - 1]
           /\ Len(batches.train) = data.train \div B
           /\ \A i \in 0..(Len(batches.train) - 1) :
                 Len(fs[FeaturePath("train", i)].batch) = B
           /\ Len(train) = data.train - (data.train % B)
           /\ Range(train) \subseteq 0..(data.train - 1)
           /\ ~args.weighted_sampler => NoRepeat(train)
           /\ (~args.weighted_sampler /\ data.train % B = 0) =>
                 Range(train) = 0..(data.train - 1)

\* C13 as stated: both passes export every sample of their dataset once
C13_Original ==
    pc = "done" =>
       /\ ExportedSamples("test") = [i \in 1..data.val |-> i - 1]
       /\ Len(ExportedSamples("train")) = data.train
       /\ Range(ExportedSamples("train")) = 0..(data.train - 1)

C13_Witness ==
    /\ pc = "done"
    /\ args.batch_size = 2 /\ ~args.weighted_sampler
    /\ data.train = 1 /\ data.val = 1
    /\ ExportedSamples("train") = <<>>
    /\ ExportedSamples("test") = <<0>>
    /\ LabelPath("test", 0) \in DOMAIN fs

=============================================================================
